---- MODULE Spec2Model ----
(***************************************************************************)
(* Model of boost::geometry::detail::overlay::follow                       *)
(* (boost/geometry/algorithms/detail/overlay/follow.hpp).                  *)
(*                                                                         *)
(* follow::apply sorts the turns of a linestring against a polygon along   *)
(* the linestring, scans them once and emits the pieces of the linestring  *)
(* that lie inside the polygon.                                            *)
(*                                                                         *)
(* Points are modelled by their position along the linestring: vertex k    *)
(* (0-based) is the point k * MaxDist, and a turn on segment i at          *)
(* distance d is the point i * MaxDist + d, so that a turn at the end of   *)
(* segment i, a turn at the start of segment i+1 and vertex i+1 are the    *)
(* same point, as they are in the plane.                                   *)
(***************************************************************************)
EXTENDS Integers, Sequences, FiniteSets, TLC

\* Bounds of the model: the vertices of the linestring, the length of a
\* segment (distances are 0..MaxDist) and the longest list of crossing turns.
NumVertices == 3
MaxDist == 2
MaxCrossings == 3

\* turn_info.hpp: method_type (those follow.hpp tells apart, and one other).
Methods == {"crosses", "collinear", "equal", "touch"}

\* turn_info.hpp: operation_type.
Operations == {"intersection", "union", "continue", "blocked", "none"}

VARIABLES
    linestring,         \* LineString const& linestring: sequence of points
    polygon,            \* Polygon const& polygon: [interior, closure]
    turns0,             \* the turn list as the caller passed it
    turns,              \* Turns& turns
    pc,                 \* position in apply: "sort", "scan", "done"
    it,                 \* turn_iterator it (1-based index into turns)
    current_piece,      \* LineStringOut current_piece
    current_segment_id, \* geometry::segment_identifier current_segment_id
    entered,            \* bool entered
    first,              \* bool first
    out,                \* the pieces written to OutputIterator out, in order
    trace,              \* per turn processed: the turn, the branch taken
                        \* (debug_traverse), the calls of geometry::within
                        \* and the locals before and after the iteration
    previous            \* what the earlier calls of apply emitted, per call

vars == <<linestring, polygon, turns0, turns, pc, it, current_piece,
          current_segment_id, entered, first, out, trace, previous>>

----------------------------------------------------------------------------
\* Geometry

\* segment_identifier(source_index, multi_index, ring_index, segment_index)
SegmentIdentifier(src, multi, ring, seg) ==
    [source_index |-> src, multi_index |-> multi,
     ring_index |-> ring, segment_index |-> seg]

\* segment_identifier::operator<, lexicographic on the four indices.
SegLess(a, b) ==
    \/ a.source_index < b.source_index
    \/ /\ a.source_index = b.source_index
       /\ \/ a.multi_index < b.multi_index
          \/ /\ a.multi_index = b.multi_index
             /\ \/ a.ring_index < b.ring_index
                \/ /\ a.ring_index = b.ring_index
                   /\ a.segment_index < b.segment_index

\* Vertex k (0-based) of the linestring, as a point.
VertexPoint(k) == k * MaxDist

\* The point of a turn on segment seg at distance dist.
PointAt(seg, dist) == seg * MaxDist + dist

\* The linestring v0 .. v(NumVertices-1).
LineStringOf(n) == [k \in 1..n |-> VertexPoint(k - 1)]

\* boost::size(linestring)
Size(ls) == Len(ls)

\* geometry::within(point, polygon): strictly inside, the boundary is not.
Within(point, poly) == point \in poly.interior

\* detail::overlay::append_no_duplicates(piece, point)
AppendNoDuplicates(piece, point) ==
    IF Len(piece) > 0 /\ piece[Len(piece)] = point
    THEN piece
    ELSE Append(piece, point)

\* geometry::copy_segments<false>(linestring, seg_id, to_index, piece):
\* appends vertices seg_id.segment_index + 1 .. to_index (0-based).
RECURSIVE CopyRange(_, _, _, _)
CopyRange(ls, from, to, piece) ==
    IF from > to THEN piece
    ELSE CopyRange(ls, from + 1, to, AppendNoDuplicates(piece, ls[from + 1]))

CopySegments(ls, seg_id, to_index, piece) ==
    LET from_index == seg_id.segment_index + 1
    IN  IF from_index > to_index \/ from_index < 0 \/ to_index >= Size(ls)
        THEN piece
        ELSE CopyRange(ls, from_index, to_index, piece)

----------------------------------------------------------------------------
\* Turns

\* A turn with its operations[0]; enriched.distance is `distance`.
Turn(seg, dist, m, o) ==
    [point |-> PointAt(seg, dist), method |-> m,
     seg_id |-> SegmentIdentifier(0, -1, -1, seg),
     distance |-> dist, operation |-> o]

TurnSet ==
    { Turn(seg, dist, m, o) :
        seg \in 0..(NumVertices - 2), dist \in 0..MaxDist,
        m \in Methods, o \in Operations }

\* The crossing turns, the normal case of is_staying_inside's comment: the
\* linestring crosses the boundary inside a segment, inwards or outwards.
CrossingTurnSet ==
    { t \in TurnSet :
        /\ t.method = "crosses"
        /\ t.operation \in {"intersection", "union"}
        /\ 0 < t.distance /\ t.distance < MaxDist }

\* The turn lists apply is called with, in any order: no turn, any one
\* turn, any two turns, and up to MaxCrossings crossing turns.
TurnLists ==
    {<<>>}
        \cup { <<a>> : a \in TurnSet }
        \cup { <<a, b>> : a \in TurnSet, b \in TurnSet }
        \cup UNION { [1..k -> CrossingTurnSet] : k \in 1..MaxCrossings }

\* The operations is_entering accepts.
IsEnteringOp(o) == o \in {"intersection", "continue", "blocked"}

\* sort_on_segment that leaves the distance out of the comparison.
SortOnSegmentNoDistance(left, right) ==
    SegLess(left.seg_id, right.seg_id)

\* sort_on_segment with the distances compared the wrong way round.
SortOnSegmentFarthestFirst(left, right) ==
    LET sl == left.seg_id
        sr == right.seg_id
    IN  IF sl = sr THEN left.distance > right.distance ELSE SegLess(sl, sr)

\* sort_on_segment::operator()
SortOnSegment(left, right) ==
    LET sl == left.seg_id
        sr == right.seg_id
    IN  IF sl = sr THEN left.distance < right.distance ELSE SegLess(sl, sr)

\* The results std::sort may leave: the arrangements of s in which no
\* element is less than an earlier one. Equal elements may come in any order.
Arrangements(s) ==
    LET n == Len(s)
        perms == { p \in [1..n -> 1..n] : \A i, j \in 1..n : i # j => p[i] # p[j] }
    IN  { [i \in 1..n |-> s[p[i]]] : p \in perms }

StdSort(s) ==
    { r \in Arrangements(s) :
        \A i, j \in 1..Len(r) : i < j => ~SortOnSegment(r[j], r[i]) }

----------------------------------------------------------------------------
\* The turn producer (get_turns), as far as apply relies on it.  The part of
\* the linestring between the points k and k + 1 is the interval k;
\* polygon.closure holds the intervals that lie inside the polygon or along
\* its boundary, polygon.interior the points strictly inside it.

LastPoint == VertexPoint(NumVertices - 1)

Intervals == 0..(LastPoint - 1)

\* The polygons whose boundary the linestring meets at points of the turns
\* of l only: between two such points it stays inside or stays outside.
PolygonsFor(l) ==
    LET cuts == {0} \cup { l[i].point : i \in 1..Len(l) }
        Cut(k) == CHOOSE c \in cuts :
                      c <= k /\ \A d \in cuts : d <= k => d <= c
    IN  { [interior |-> i, closure |-> { k \in Intervals : side[Cut(k)] }] :
            i \in SUBSET {VertexPoint(0)}, side \in [cuts -> BOOLEAN] }

\* A point strictly inside the polygon has the linestring around it inside.
ValidPolygon(poly) ==
    \A p \in poly.interior : p \in Intervals => p \in poly.closure

\* The operation tells where the linestring goes after the turn, a
\* crossing lies between an inside and an outside part, and a collinear or
\* equal turn always has an operation.
ValidTurn(t, poly) ==
    LET p == t.point
    IN  /\ t.method \in {"collinear", "equal"} => t.operation # "none"
        /\ (IsEnteringOp(t.operation) /\ p < LastPoint) => p \in poly.closure
        /\ (t.operation = "union" /\ p < LastPoint) => p \notin poly.closure
        /\ t.method = "crosses" =>
              /\ 0 < p /\ p < LastPoint
              /\ ((p - 1) \in poly.closure) # (p \in poly.closure)

\* The turns that may come first after the sort.
FirstTurns(l) ==
    { i \in 1..Len(l) : \A j \in 1..Len(l) : ~SortOnSegment(l[j], l[i]) }

\* A turn list the producer can give for the linestring and the polygon.
ValidTurns(l, poly) ==
    /\ \A i \in 1..Len(l) : ValidTurn(l[i], poly)
    \* every place where the linestring enters or leaves has its turn
    /\ \A p \in 1..(LastPoint - 1) :
          ((p - 1) \in poly.closure) # (p \in poly.closure) =>
              \E i \in 1..Len(l) : l[i].point = p /\ l[i].operation # "none"
    \* a first turn that is collinear or equal: the linestring ran along
    \* the boundary up to it (was_entered's comment)
    /\ \A i \in FirstTurns(l) :
          l[i].method \in {"collinear", "equal"} =>
              \A k \in Intervals : k < l[i].point => k \in poly.closure
    \* a linestring that starts on the boundary and goes inside has a turn
    \* at its first point, or a collinear or equal first turn
    /\ (0 \in poly.closure /\ VertexPoint(0) \notin poly.interior) =>
          \/ \E i \in 1..Len(l) :
                l[i].point = VertexPoint(0) /\ IsEnteringOp(l[i].operation)
          \/ \E i \in FirstTurns(l) : l[i].method \in {"collinear", "equal"}

----------------------------------------------------------------------------
\* Classifier.  Each predicate yields its value and whether it evaluated
\* geometry::within (|| and && short-circuit).

\* is_entering
IsEntering(turn, op) ==
    \/ op.operation = "intersection"
    \/ op.operation = "continue"
    \/ op.operation = "blocked"

\* is_leaving with the in-polygon test tried before the method.
IsLeavingCallsWithinEager(turn, op, e, f) ==
    /\ op.operation = "union"
    /\ ~e
    /\ f

\* is_leaving: whether geometry::within is reached
IsLeavingCallsWithin(turn, op, e, f) ==
    /\ op.operation = "union"
    /\ ~e
    /\ turn.method # "crosses"
    /\ f

\* is_leaving that forgets the entered flag.
IsLeavingNotEntered(turn, op, e, f, ls, poly) ==
    IF op.operation = "union"
    THEN \/ turn.method = "crosses"
         \/ (f /\ Within(ls[1], poly))
    ELSE FALSE

\* is_leaving
IsLeaving(turn, op, e, f, ls, poly) ==
    IF op.operation = "union"
    THEN \/ e
         \/ turn.method = "crosses"
         \/ (f /\ Within(ls[1], poly))
    ELSE FALSE

\* is_staying_inside testing the first vertex at every turn, not only the
\* first one.
IsStayingInsideCallsWithinAnyTurn(turn, op, e, f) ==
    /\ turn.method # "crosses"
    /\ IsEntering(turn, op)
    /\ ~e

\* is_staying_inside: whether geometry::within is reached
IsStayingInsideCallsWithin(turn, op, e, f) ==
    /\ turn.method # "crosses"
    /\ IsEntering(turn, op)
    /\ ~e
    /\ f

\* is_staying_inside that does not look at entered.
IsStayingInsideNotEntered(turn, op, e, f, ls, poly) ==
    IF turn.method = "crosses"
    THEN FALSE
    ELSE IF IsEntering(turn, op)
         THEN f /\ Within(ls[1], poly)
         ELSE FALSE

\* is_staying_inside without the early return for method_crosses.
IsStayingInsideNoCrossesTest(turn, op, e, f, ls, poly) ==
    IF IsEntering(turn, op)
    THEN e \/ (f /\ Within(ls[1], poly))
    ELSE FALSE

\* is_staying_inside
IsStayingInside(turn, op, e, f, ls, poly) ==
    IF turn.method = "crosses"
    THEN FALSE
    ELSE IF IsEntering(turn, op)
         THEN e \/ (f /\ Within(ls[1], poly))
         ELSE FALSE

\* was_entered without the test of the method.
WasEnteredAnyMethod(turn, f) == f

\* was_entered
WasEntered(turn, f) ==
    f /\ (turn.method = "collinear" \/ turn.method = "equal")

----------------------------------------------------------------------------
\* follow::apply

\* current_segment_id started on segment 0 instead of before it.
InitialSegmentIdZero == SegmentIdentifier(0, -1, -1, 0)

\* geometry::segment_identifier current_segment_id(0, -1, -1, -1)
InitialSegmentId == SegmentIdentifier(0, -1, -1, -1)

Init ==
    /\ linestring = LineStringOf(NumVertices)
    /\ polygon \in { [interior |-> {}, closure |-> {}],
                      [interior |-> {VertexPoint(0)}, closure |-> {0}] }
    /\ turns0 \in TurnLists
    /\ turns = turns0
    /\ pc = "sort"
    /\ it = 1
    /\ current_piece = <<>>
    /\ current_segment_id = InitialSegmentId
    /\ entered = FALSE
    /\ first = TRUE
    /\ out = <<>>
    /\ trace = <<>>
    /\ previous = <<>>

\* std::sort(boost::begin(turns), boost::end(turns), sort_on_segment())
Sort ==
    /\ pc = "sort"
    /\ turns' \in StdSort(turns)
    /\ pc' = "scan"
    /\ UNCHANGED <<linestring, polygon, turns0, it, current_piece,
                   current_segment_id, entered, first, out, trace, previous>>

\* The branch the loop body takes for a turn, after the pre-mark:
\* if (is_staying_inside) .. else if (is_entering) .. else if (is_leaving) ..
Branch(turn, op, e, f, ls, poly) ==
    IF IsStayingInside(turn, op, e, f, ls, poly) THEN "Staying inside"
    ELSE IF IsEntering(turn, op) THEN "Entering"
    ELSE IF IsLeaving(turn, op, e, f, ls, poly) THEN "Leaving"
    ELSE "Ignore"

\* The evaluations of geometry::within the loop body makes for a turn:
\* is_leaving is evaluated only when is_staying_inside and is_entering
\* both returned false.
WithinCalls(turn, op, e, f) ==
    (IF IsStayingInsideCallsWithin(turn, op, e, f) THEN 1 ELSE 0)
    + (IF ~IsEntering(turn, op) /\ IsLeavingCallsWithin(turn, op, e, f)
       THEN 1 ELSE 0)

\* The Leaving branch copying one vertex too few.
LeavingPieceShort(ls, seg_id, turn, op, piece) ==
    AppendNoDuplicates(
        CopySegments(ls, seg_id, op.seg_id.segment_index - 1, piece), turn.point)

\* The Leaving branch without the append of the turn's point.
LeavingPieceNoPoint(ls, seg_id, turn, op, piece) ==
    CopySegments(ls, seg_id, op.seg_id.segment_index, piece)

\* The piece the Leaving branch completes: copy_segments up to the turn's
\* segment, then the turn's point.
LeavingPiece(ls, seg_id, turn, op, piece) ==
    AppendNoDuplicates(
        CopySegments(ls, seg_id, op.seg_id.segment_index, piece), turn.point)

\* The tail copy without the test of entered.
TailCopyAlways(ls, seg_id, e, piece) ==
    CopySegments(ls, seg_id, Size(ls) - 1, piece)

\* The tail copy stopping one vertex early.
TailCopyShort(ls, seg_id, e, piece) ==
    IF e THEN CopySegments(ls, seg_id, Size(ls) - 2, piece) ELSE piece

\* if (entered) copy_segments(linestring, current_segment_id, size - 1, ..)
TailCopy(ls, seg_id, e, piece) ==
    IF e THEN CopySegments(ls, seg_id, Size(ls) - 1, piece) ELSE piece

\* *out++ = piece, under if (! piece.empty())
Emit(o, piece) == IF piece # <<>> THEN Append(o, piece) ELSE o

\* The loop body with the Leaving branch leaving entered as it is.
EnteredAfterLeavingKeeps(br, e1) ==
    IF br \in {"Staying inside", "Entering"} THEN TRUE ELSE e1

\* entered at the end of the loop body: set by the Staying inside and the
\* Entering branch, cleared by the Leaving branch, else as the pre-mark
\* left it.
EnteredAfter(br, e1) ==
    IF br \in {"Staying inside", "Entering"} THEN TRUE
    ELSE IF br = "Leaving" THEN FALSE
    ELSE e1

\* The loop body with the Staying inside branch appending the turn's point.
PieceAfterStayingAppends(br, piece, turn, done) ==
    IF br \in {"Entering", "Staying inside"}
    THEN AppendNoDuplicates(piece, turn.point)
    ELSE IF br = "Leaving" THEN (IF done # <<>> THEN <<>> ELSE done)
    ELSE piece

\* The loop body with the Leaving branch emitting without the clear().
PieceAfterLeavingKeeps(br, piece, turn, done) ==
    IF br = "Entering" THEN AppendNoDuplicates(piece, turn.point)
    ELSE IF br = "Leaving" THEN done
    ELSE piece

\* current_piece at the end of the loop body; done is the piece the Leaving
\* branch completed, cleared when it was emitted.
PieceAfter(br, piece, turn, done) ==
    IF br = "Entering" THEN AppendNoDuplicates(piece, turn.point)
    ELSE IF br = "Leaving" THEN (IF done # <<>> THEN <<>> ELSE done)
    ELSE piece

\* The loop body with the Leaving branch moving the anchor to its turn.
SegmentIdAfterLeavingWrites(br, seg_id, op) ==
    IF br \in {"Entering", "Leaving"} THEN op.seg_id ELSE seg_id

\* current_segment_id at the end of the loop body: only the Entering branch
\* assigns it.
SegmentIdAfter(br, seg_id, op) ==
    IF br = "Entering" THEN op.seg_id ELSE seg_id

\* The output at the end of the loop body: only the Leaving branch emits.
OutAfter(br, o, done) ==
    IF br = "Leaving" THEN Emit(o, done) ELSE o

\* One iteration of the for loop over the turns.
Iterate ==
    /\ pc = "scan"
    /\ it <= Len(turns)
    /\ LET turn == turns[it]
           iit  == turns[it]
           pre  == WasEntered(turn, first)
           e1   == IF pre THEN TRUE ELSE entered
           br   == Branch(turn, iit, e1, first, linestring, polygon)
           done == LeavingPiece(linestring, current_segment_id, turn, iit,
                                current_piece)
       IN  /\ entered' = EnteredAfter(br, e1)
           /\ current_piece' = PieceAfter(br, current_piece, turn, done)
           /\ current_segment_id' = SegmentIdAfter(br, current_segment_id, iit)
           /\ out' = OutAfter(br, out, done)
           /\ trace' = Append(trace,
                 [turn |-> turn, was_entered |-> pre, branch |-> br,
                  within |-> WithinCalls(turn, iit, e1, first),
                  before |-> [entered |-> entered, first |-> first,
                              current_piece |-> current_piece,
                              current_segment_id |-> current_segment_id,
                              out |-> out],
                  after |-> [entered |-> entered',
                             current_piece |-> current_piece',
                             current_segment_id |-> current_segment_id',
                             out |-> out']])
    /\ first' = FALSE
    /\ it' = it + 1
    /\ UNCHANGED <<linestring, polygon, turns0, turns, pc, previous>>

\* After the loop: the tail copy and the last piece.
Flush ==
    /\ pc = "scan"
    /\ it > Len(turns)
    /\ current_piece' = TailCopy(linestring, current_segment_id, entered,
                                 current_piece)
    /\ out' = Emit(out, current_piece')
    /\ pc' = "done"
    /\ UNCHANGED <<linestring, polygon, turns0, turns, it, current_segment_id,
                   entered, first, trace, previous>>

Next == Sort \/ Iterate \/ Flush

Spec == Init /\ [][Next]_vars

\* apply called with a polygon and the turns the producer gives for it.
InitGeo ==
    /\ linestring = LineStringOf(NumVertices)
    /\ turns0 \in TurnLists
    /\ polygon \in { poly \in PolygonsFor(turns0) :
                        ValidPolygon(poly) /\ ValidTurns(turns0, poly) }
    /\ turns = turns0
    /\ pc = "sort"
    /\ it = 1
    /\ current_piece = <<>>
    /\ current_segment_id = InitialSegmentId
    /\ entered = FALSE
    /\ first = TRUE
    /\ out = <<>>
    /\ trace = <<>>
    /\ previous = <<>>

SpecGeo == InitGeo /\ [][Next]_vars

\* A second call of apply on the same linestring and polygon, with the turn
\* list as the first call left it (apply sorts the caller's list in place).
Rerun ==
    /\ pc = "done"
    /\ previous = <<>>
    /\ previous' = Append(previous, out)
    /\ turns0' = turns
    /\ pc' = "sort"
    /\ it' = 1
    /\ current_piece' = <<>>
    /\ current_segment_id' = InitialSegmentId
    /\ entered' = FALSE
    /\ first' = TRUE
    /\ out' = <<>>
    /\ trace' = <<>>
    /\ UNCHANGED <<linestring, polygon, turns>>

\* The loop body applied to one turn from any values of entered and first:
\* the classifier as a function of (method, operation, entered, first,
\* within(v0, P)).
InitClassify ==
    /\ linestring = LineStringOf(NumVertices)
    /\ polygon \in { [interior |-> {}, closure |-> {}],
                      [interior |-> {VertexPoint(0)}, closure |-> {0}] }
    /\ turns0 \in { <<a>> : a \in TurnSet }
    /\ turns = turns0
    /\ pc = "sort"
    /\ it = 1
    /\ current_piece = <<>>
    /\ current_segment_id = InitialSegmentId
    /\ entered \in BOOLEAN
    /\ first \in BOOLEAN
    /\ out = <<>>
    /\ trace = <<>>
    /\ previous = <<>>

SpecClassify == InitClassify /\ [][Next]_vars

NextRerun == Sort \/ Iterate \/ Flush \/ Rerun

SpecRerun == Init /\ [][NextRerun]_vars

----------------------------------------------------------------------------
\* Vocabulary of the properties

\* within(v0, P)
V0Inside == Within(linestring[1], polygon)

\* Vertex k (0-based) of the linestring.
Vertex(k) == linestring[k + 1]

\* The vertices v(i) .. v(j), empty when i > j.
Vertices(i, j) == [k \in 1..(j - i + 1) |-> Vertex(i + k - 1)]

\* s with each run of equal consecutive points reduced to one point.
RECURSIVE Unique(_)
Unique(s) ==
    IF Len(s) <= 1 THEN s
    ELSE LET r == Unique(SubSeq(s, 1, Len(s) - 1))
         IN  IF r[Len(r)] = s[Len(s)] THEN r ELSE Append(r, s[Len(s)])

\* The turns among the first n processed that took the Leaving branch.
LeavingCount(n) ==
    Cardinality({ k \in 1..n : trace[k].branch = "Leaving" })

\* The piece emitted by turn b, a turn that took the Leaving branch.
PieceOf(b) == out[LeavingCount(b)]

\* No turn before turn a took the Entering branch.
NoEnteringBefore(a) == \A k \in 1..(a - 1) : trace[k].branch # "Entering"

\* entered was never set by the first n turns processed.
NeverEntered(n) ==
    \A k \in 1..n :
        /\ ~trace[k].was_entered
        /\ trace[k].branch \notin {"Entering", "Staying inside"}

\* current_piece is empty when turn a is processed: every Entering turn
\* before it was followed by a Leaving turn before it.
PieceEmptyAt(a) ==
    \A k \in 1..(a - 1) :
        trace[k].branch = "Entering" =>
            \E m \in (k + 1)..(a - 1) : trace[m].branch = "Leaving"

\* Turn a took the Entering branch and turn b is the next turn that took
\* the Entering or the Leaving branch, and took the Leaving branch.
EnterLeavePair(a, b) ==
    /\ a < b
    /\ trace[a].branch = "Entering"
    /\ trace[b].branch = "Leaving"
    /\ \A k \in (a + 1)..(b - 1) : trace[k].branch \notin {"Entering", "Leaving"}

\* [enter.point, v(i+1), .., v(j), leave.point], equal neighbours suppressed.
EnterLeavePiece(a, b) ==
    Unique(<<trace[a].turn.point>>
           \o Vertices(trace[a].turn.seg_id.segment_index + 1,
                       trace[b].turn.seg_id.segment_index)
           \o <<trace[b].turn.point>>)

\* The intervals a piece covers.
Covered(piece) ==
    UNION { { k \in Intervals :
                \/ piece[i] <= k /\ k < piece[i + 1]
                \/ piece[i + 1] <= k /\ k < piece[i] } : i \in 1..(Len(piece) - 1) }

\* (seg_id, distance) order, not strict.
KeyLeq(a, b) ==
    \/ a.seg_id.segment_index < b.seg_id.segment_index
    \/ /\ a.seg_id.segment_index = b.seg_id.segment_index
       /\ a.distance <= b.distance

\* a and b hold the same turns, each as often.
IsPermutation(a, b) ==
    /\ Len(a) = Len(b)
    /\ \A i \in 1..Len(a) :
          Cardinality({ k \in 1..Len(a) : a[k] = a[i] })
              = Cardinality({ k \in 1..Len(b) : b[k] = a[i] })

\* Piece q was opened by a turn that took the Entering branch: there is one
\* after the Leaving turn that emitted piece q - 1 and before the end of q.
OpenedByEntering(q) ==
    \E a \in 1..Len(trace) :
        /\ trace[a].branch = "Entering"
        /\ LeavingCount(a) = q - 1

----------------------------------------------------------------------------
\* Properties

\* C1 (as claimed): called with no turns and v0 inside the polygon, apply
\* emits exactly one piece, the linestring itself.
C1_EmptyTurnsInsideEmitsLinestring ==
    (pc = "done" /\ turns0 = <<>> /\ V0Inside) => out = <<linestring>>

C4_EnterLeaveEmitsRun ==
    \A a, b \in 1..Len(trace) :
        EnterLeavePair(a, b) => PieceOf(b) = EnterLeavePiece(a, b)

\* C4 (amended): the same, when current_piece is empty at the Entering turn.
C4_EnterLeaveEmitsRunFromEmpty ==
    \A a, b \in 1..Len(trace) :
        (EnterLeavePair(a, b) /\ PieceEmptyAt(a))
            => PieceOf(b) = EnterLeavePiece(a, b)

C4_Witness ==
    \E a, b \in 1..Len(trace) :
        /\ EnterLeavePair(a, b)
        /\ PieceEmptyAt(a)
        /\ trace[a].turn.seg_id.segment_index < trace[b].turn.seg_id.segment_index
        /\ PieceOf(b) = EnterLeavePiece(a, b)

\* C5: when v0 is inside and the first turn is a crossing union turn on
\* segment j, taken as Leaving, the piece emitted is [v0, .., v(j), t.point]
\* (as a piece: a point equal to the vertex before it is not repeated).
C5_FirstLeavingStartsAtV0 ==
    (/\ Len(trace) >= 1
     /\ V0Inside
     /\ trace[1].turn.operation = "union"
     /\ trace[1].turn.method = "crosses"
     /\ trace[1].branch = "Leaving")
        => /\ Len(out) >= 1
           /\ out[1] = Unique(Vertices(0, trace[1].turn.seg_id.segment_index)
                                 \o <<trace[1].turn.point>>)
           /\ out[1][1] = Vertex(0)

C5_Witness ==
    /\ Len(trace) >= 1
    /\ V0Inside
    /\ trace[1].turn.operation = "union"
    /\ trace[1].turn.method = "crosses"
    /\ trace[1].branch = "Leaving"
    /\ trace[1].turn.seg_id.segment_index >= 1
    /\ Len(out[1]) = trace[1].turn.seg_id.segment_index + 2

\* C6: when entered is true after the last turn, the tail flush appends the
\* vertices after the anchor up to the last vertex and emits the piece, so
\* the last emitted piece ends at the last vertex of the linestring.
C6_TailFlush ==
    (pc = "done" /\ entered) =>
        LET tail == Vertices(current_segment_id.segment_index + 1,
                             Size(linestring) - 1)
            last == out[Len(out)]
        IN  /\ out # <<>>
            /\ last = current_piece
            /\ last[Len(last)] = Vertex(Size(linestring) - 1)
            /\ Len(last) >= Len(tail)
            /\ SubSeq(last, Len(last) - Len(tail) + 1, Len(last)) = tail

C6_Witness ==
    /\ pc = "done"
    /\ entered
    /\ current_segment_id.segment_index = 0
    /\ Len(out[Len(out)]) = Size(linestring)
    /\ trace[Len(trace)].branch = "Entering"

\* C7 (as claimed): a Leaving turn met while current_piece is empty and
\* the linestring was never entered emits nothing, so that during the scan
\* nothing is emitted as long as entered has never been set.
C7_LeavingNeverEnteredEmitsNothing ==
    (pc = "scan" /\ NeverEntered(Len(trace))) => out = <<>>

\* C7 (amended): a Leaving turn on segment j met with no Entering turn
\* before it emits a piece: v0 .. v(j) and the turn's point, equal
\* neighbours suppressed.
C7_LeavingNeverEnteredEmitsFromV0 ==
    \A b \in 1..Len(trace) :
        (trace[b].branch = "Leaving" /\ NoEnteringBefore(b))
            => /\ LeavingCount(b) <= Len(out)
               /\ PieceOf(b) =
                     Unique(Vertices(0, trace[b].turn.seg_id.segment_index)
                            \o <<trace[b].turn.point>>)

C7_Witness ==
    /\ Len(trace) = 2
    /\ NeverEntered(2)
    /\ trace[2].branch = "Leaving"
    /\ trace[2].turn.seg_id.segment_index = 1
    /\ Len(out) = 1
    /\ out[1] = <<Vertex(0), Vertex(1), trace[2].turn.point>>

\* C8: called with no turns and v0 not inside the polygon, apply emits no
\* piece.
C8_EmptyTurnsOutsideEmitsNothing ==
    (pc = "done" /\ turns0 = <<>> /\ ~V0Inside) => out = <<>>

C8_Witness ==
    /\ pc = "done"
    /\ turns0 = <<>>
    /\ ~V0Inside
    /\ out = <<>>

\* C9: after the sort the turn list is a permutation of the list passed in,
\* in nondecreasing (seg_id, distance) order, and the scan processes the
\* turns in that order.
C9_SortedPermutationScannedInOrder ==
    pc # "sort" =>
        /\ IsPermutation(turns, turns0)
        /\ \A i, j \in 1..Len(turns) : i < j => KeyLeq(turns[i], turns[j])
        /\ Len(trace) = it - 1
        /\ \A k \in 1..Len(trace) : trace[k].turn = turns[k]
        /\ pc = "done" => Len(trace) = Len(turns)

C9_Witness ==
    /\ pc = "done"
    /\ Len(turns) >= 2
    /\ turns # turns0
    /\ turns[1].seg_id = turns[2].seg_id
    /\ turns[1].distance < turns[2].distance

\* C10: processing a turn whose method is crosses never evaluates
\* within(v0, P), whatever its operation and the values of entered and first.
C10_CrossesNeverCallsWithin ==
    \A k \in 1..Len(trace) :
        trace[k].turn.method = "crosses" => trace[k].within = 0

C10_Witness ==
    /\ Len(trace) >= 2
    /\ trace[1].turn.method = "crosses"
    /\ trace[1].turn.operation = "union"
    /\ trace[1].within = 0
    /\ trace[2].turn.method = "crosses"
    /\ trace[2].turn.operation = "intersection"
    /\ trace[2].within = 0

\* C11 (as claimed): a second call of apply with the turn list the first
\* call left emits the same pieces as the first call, also when several
\* turns have the same (seg_id, distance).
C11_RerunEmitsSame ==
    (pc = "done" /\ previous # <<>>) => out = previous[1]

\* The verdict of the ordered rules for a turn of method m and operation o,
\* with entered = e and first = f on entry and v0in = within(v0, P): the
\* pre-mark first, then the first rule that applies.
SpecPreMark(m, f) == f /\ m \in {"collinear", "equal"}

SpecVerdict(m, o, e, f, v0in) ==
    LET e1 == e \/ SpecPreMark(m, f)
    IN  IF /\ m # "crosses"
           /\ o \in {"intersection", "continue", "blocked"}
           /\ (e1 \/ (f /\ v0in))
        THEN "Staying inside"
        ELSE IF o \in {"intersection", "continue", "blocked"}
        THEN "Entering"
        ELSE IF o = "union" /\ (e1 \/ m = "crosses" \/ (f /\ v0in))
        THEN "Leaving"
        ELSE "Ignore"

\* C12: for every method, operation, entered, first and position of v0,
\* the loop body pre-marks and takes the branch that the ordered rules give.
C12_BranchIsSpecVerdict ==
    \A k \in 1..Len(trace) :
        LET r == trace[k]
        IN  /\ r.was_entered = SpecPreMark(r.turn.method, r.before.first)
            /\ r.branch = SpecVerdict(r.turn.method, r.turn.operation,
                                      r.before.entered, r.before.first,
                                      V0Inside)

C12_Witness ==
    /\ Len(trace) = 1
    /\ trace[1].before.first
    /\ ~trace[1].before.entered
    /\ V0Inside
    /\ trace[1].turn.method = "touch"
    /\ trace[1].turn.operation = "continue"
    /\ trace[1].branch = "Staying inside"

\* Turn k was pre-marked and has an operation is_entering accepts.
PreMarkedEnteringOp(k) ==
    /\ trace[k].was_entered
    /\ IsEnteringOp(trace[k].turn.operation)

RECURSIVE WithinTotal(_)
WithinTotal(n) == IF n = 0 THEN 0 ELSE WithinTotal(n - 1) + trace[n].within

\* C14: one call of apply evaluates within(v0, P) at most once, and only
\* for the first turn scanned, with first true, entered false and an
\* operation among intersection, continue, blocked and union; no later turn
\* evaluates it.
C14_WithinOnlyAtFirstTurn ==
    /\ WithinTotal(Len(trace)) <= 1
    /\ \A k \in 1..Len(trace) :
          trace[k].within > 0 =>
              /\ k = 1
              /\ trace[k].before.first
              /\ ~trace[k].before.entered
              /\ ~trace[k].was_entered
              /\ trace[k].turn.operation
                    \in {"intersection", "continue", "blocked", "union"}

C14_Witness ==
    /\ pc = "done"
    /\ Len(trace) = 2
    /\ trace[1].within = 1
    /\ trace[2].within = 0
    /\ trace[2].turn.method # "crosses"
    /\ trace[2].turn.operation \in {"intersection", "union"}
    /\ ~trace[2].before.entered
    /\ WithinTotal(2) = 1

\* Turn k left current_piece, current_segment_id and the output as they
\* were.
KeepsPieceAnchorOutput(k) ==
    /\ trace[k].after.current_piece = trace[k].before.current_piece
    /\ trace[k].after.current_segment_id = trace[k].before.current_segment_id
    /\ trace[k].after.out = trace[k].before.out

\* C15 (as claimed): a turn for which no branch is taken changes nothing:
\* entered, current_piece, current_segment_id and the output are after the
\* turn what they were before it.
C15_IgnoreChangesNothing ==
    \A k \in 1..Len(trace) :
        trace[k].branch = "Ignore" =>
            /\ trace[k].after.entered = trace[k].before.entered
            /\ KeepsPieceAnchorOutput(k)

\* C15 (amended): such a turn leaves current_piece, current_segment_id and
\* the output as they were, and entered too unless the turn is the first
\* one and collinear or equal: then the pre-mark has set entered.
C15_IgnoreChangesOnlyPreMark ==
    \A k \in 1..Len(trace) :
        trace[k].branch = "Ignore" =>
            /\ trace[k].after.entered
                  = (\/ trace[k].before.entered
                     \/ /\ trace[k].before.first
                        /\ trace[k].turn.method \in {"collinear", "equal"})
            /\ KeepsPieceAnchorOutput(k)

C15_Witness ==
    /\ Len(trace) = 2
    /\ trace[1].branch = "Ignore"
    /\ trace[1].was_entered
    /\ ~trace[1].before.entered
    /\ trace[1].after.entered
    /\ trace[2].branch = "Ignore"
    /\ trace[2].after.entered
    /\ KeepsPieceAnchorOutput(1)
    /\ KeepsPieceAnchorOutput(2)

\* C16: a turn that takes the Staying inside branch sets entered and leaves
\* current_piece, current_segment_id and the output as they were: its point
\* is not appended and nothing is emitted.
C16_StayingInsideOnlySetsEntered ==
    \A k \in 1..Len(trace) :
        trace[k].branch = "Staying inside" =>
            /\ trace[k].after.entered
            /\ KeepsPieceAnchorOutput(k)

C16_Witness ==
    /\ Len(trace) = 2
    /\ trace[1].branch = "Entering"
    /\ trace[2].branch = "Staying inside"
    /\ trace[2].turn.point > trace[1].turn.point
    /\ trace[2].turn.seg_id # trace[1].turn.seg_id
    /\ entered
    /\ current_piece = <<trace[1].turn.point>>
    /\ current_segment_id = trace[1].turn.seg_id
    /\ out = <<>>

\* Turn b is the first turn after turn k that took the Entering branch.
NextEnteringAfter(k, b) ==
    /\ k < b
    /\ trace[b].branch = "Entering"
    /\ \A m \in (k + 1)..(b - 1) : trace[m].branch # "Entering"

\* C17: after a turn that took the Leaving branch entered is false and
\* current_piece is empty, the piece that was open having been completed,
\* emitted and cleared; the next Entering turn starts a piece that holds
\* its own point only.
C17_LeavingClosesPiece ==
    \A k \in 1..Len(trace) :
        trace[k].branch = "Leaving" =>
            /\ ~trace[k].after.entered
            /\ trace[k].after.current_piece = <<>>
            /\ Len(trace[k].after.out) = Len(trace[k].before.out) + 1
            /\ LET emitted == trace[k].after.out[Len(trace[k].after.out)]
                   open == trace[k].before.current_piece
               IN  /\ emitted # <<>>
                   /\ Len(open) <= Len(emitted)
                   /\ SubSeq(emitted, 1, Len(open)) = open
            /\ \A b \in 1..Len(trace) :
                  NextEnteringAfter(k, b) =>
                      trace[b].after.current_piece = <<trace[b].turn.point>>

C17_Witness ==
    /\ Len(trace) = 3
    /\ trace[1].branch = "Entering"
    /\ trace[2].branch = "Leaving"
    /\ trace[2].before.current_piece # <<>>
    /\ trace[2].after.current_piece = <<>>
    /\ ~trace[2].after.entered
    /\ trace[3].branch = "Entering"
    /\ trace[3].turn.point > trace[2].turn.point
    /\ current_piece = <<trace[3].turn.point>>
    /\ Len(out) = 1

\* C18: whenever current_piece is not empty entered is true, before and
\* after every iteration of the loop and at the tail flush; so the piece
\* emitted after the loop, if any, has always gone through the tail copy.
C18_OpenPieceImpliesEntered ==
    /\ current_piece # <<>> => entered
    /\ \A k \in 1..Len(trace) :
          /\ trace[k].before.current_piece # <<>> => trace[k].before.entered
          /\ trace[k].after.current_piece # <<>> => trace[k].after.entered
    /\ (pc = "done" /\ Len(out) > LeavingCount(Len(trace))) =>
          /\ entered
          /\ out[Len(out)] = current_piece
          /\ current_piece[Len(current_piece)] = Vertex(Size(linestring) - 1)

C18_Witness ==
    /\ pc = "done"
    /\ Len(trace) = 3
    /\ trace[2].branch = "Leaving"
    /\ trace[3].branch = "Entering"
    /\ entered
    /\ Len(out) = 2
    /\ out[2] = current_piece
    /\ Len(current_piece) >= 2

\* Turns b and c took the Leaving branch, b before c, and no turn between
\* them took the Entering branch.
LeavingAfterLeaving(b, c) ==
    /\ b < c
    /\ trace[b].branch = "Leaving"
    /\ trace[c].branch = "Leaving"
    /\ \A m \in (b + 1)..(c - 1) : trace[m].branch # "Entering"

\* Turn b took the Leaving branch and no later turn the Entering branch.
LastLeavingNoEnteringAfter(b) ==
    /\ trace[b].branch = "Leaving"
    /\ \A m \in (b + 1)..Len(trace) : trace[m].branch # "Entering"

\* current_segment_id starts as (0,-1,-1,-1); a turn that takes the Entering
\* branch assigns it its own seg_id; every other turn and the tail flush
\* leave it alone.
AnchorFrame ==
    /\ pc = "sort" => current_segment_id = SegmentIdentifier(0, -1, -1, -1)
    /\ Len(trace) >= 1 =>
          trace[1].before.current_segment_id = SegmentIdentifier(0, -1, -1, -1)
    /\ \A k \in 1..Len(trace) :
          /\ trace[k].after.current_segment_id =
                IF trace[k].branch = "Entering"
                THEN trace[k].turn.seg_id
                ELSE trace[k].before.current_segment_id
          /\ k > 1 => trace[k].before.current_segment_id
                         = trace[k - 1].after.current_segment_id
    /\ Len(trace) >= 1 =>
          current_segment_id = trace[Len(trace)].after.current_segment_id

\* A Leaving turn that follows a Leaving turn with no Entering turn in
\* between emits the vertices after the old anchor and its point.
LeavingCopiesFromOldAnchor ==
    \A b, c \in 1..Len(trace) :
        LeavingAfterLeaving(b, c) =>
            PieceOf(c) =
                Unique(Vertices(
                    trace[b].before.current_segment_id.segment_index + 1,
                    trace[c].turn.seg_id.segment_index)
                       \o <<trace[c].turn.point>>)

\* C19 (as claimed): current_segment_id starts as (0,-1,-1,-1) and only a
\* turn that takes the Entering branch assigns it; after a Leaving turn it
\* is still the anchor of the Entering turn before, and a further Leaving
\* turn or the tail flush with no Entering turn in between copies the
\* vertices after that old anchor.
C19_OldAnchorUsedByLeavingAndFlush ==
    /\ AnchorFrame
    /\ LeavingCopiesFromOldAnchor
    /\ \A b \in 1..Len(trace) :
          (pc = "done" /\ LastLeavingNoEnteringAfter(b)) =>
              /\ out # <<>>
              /\ out[Len(out)] =
                    Vertices(trace[b].before.current_segment_id.segment_index + 1,
                             Size(linestring) - 1)

\* C19 (amended): the same for current_segment_id and for a further Leaving
\* turn; the tail flush after a Leaving turn with no Entering turn in
\* between finds entered false and copies and emits nothing.
C19_AnchorWrittenByEnteringOnly ==
    /\ AnchorFrame
    /\ LeavingCopiesFromOldAnchor
    /\ \A b \in 1..Len(trace) :
          LastLeavingNoEnteringAfter(b) =>
              /\ ~entered
              /\ current_piece = <<>>
              /\ Len(out) = LeavingCount(Len(trace))

C19_Witness ==
    /\ Len(trace) = 3
    /\ trace[1].branch = "Entering"
    /\ trace[1].turn.seg_id.segment_index = 0
    /\ trace[2].branch = "Leaving"
    /\ trace[2].turn.seg_id.segment_index = 0
    /\ trace[3].branch = "Leaving"
    /\ trace[3].turn.seg_id.segment_index = 1
    /\ current_segment_id = trace[1].turn.seg_id
    /\ out[2] = <<Vertex(1), trace[3].turn.point>>
    /\ pc = "done"
    /\ ~entered
    /\ Len(out) = 2

====
